---- MODULE Spec2Model ----
(***************************************************************************)
(* Model of src/lsp_launcher.py, the launcher of the pywire language       *)
(* server: module-level path setup (sys.path, os.environ["PATH"]), the      *)
(* .venv scan, the agent-log region and the guarded import/start of the     *)
(* server entry point.                                                      *)
(*                                                                          *)
(* A Python str is modelled as a sequence of symbols.  The symbol "/" is    *)
(* os.sep and ":" is os.pathsep (the script's comments name the Unix        *)
(* layout lib/pythonX.X/site-packages); every other symbol is an opaque     *)
(* run of characters holding neither.  String concatenation is \o.          *)
(***************************************************************************)
EXTENDS Integers, Sequences, FiniteSets, TLC

(***************************************************************************)
(* Bounds of the model.                                                     *)
(***************************************************************************)
\* longest directory listing of <venv>/lib that is enumerated
MaxItems == 2
\* longest initial sys.path that is enumerated
MaxInitEntries == 1

(***************************************************************************)
(* Strings and posixpath.                                                   *)
(***************************************************************************)
sep == "/"
pathsep == ":"

\* s.startswith(prefix)
startswith(s, prefix) ==
    /\ Len(prefix) <= Len(s)
    /\ SubSeq(s, 1, Len(prefix)) = prefix

\* s.endswith(suffix)
endswith(s, suffix) ==
    /\ Len(suffix) <= Len(s)
    /\ SubSeq(s, Len(s) - Len(suffix) + 1, Len(s)) = suffix

\* needle in s (substring test)
Contains(s, needle) ==
    \E i \in 0..(Len(s) - Len(needle)) : SubSeq(s, i + 1, i + Len(needle)) = needle

\* s.split(sep): the runs between separators, empty runs included
RECURSIVE SplitAcc(_, _, _, _)
SplitAcc(s, d, cur, acc) ==
    IF s = <<>> THEN Append(acc, cur)
    ELSE IF Head(s) = d THEN SplitAcc(Tail(s), d, <<>>, Append(acc, cur))
    ELSE SplitAcc(Tail(s), d, Append(cur, Head(s)), acc)

split(s, d) == SplitAcc(s, d, <<>>, <<>>)

\* d.join(parts)
RECURSIVE JoinWith(_, _)
JoinWith(d, parts) ==
    IF parts = <<>> THEN <<>>
    ELSE IF Len(parts) = 1 THEN Head(parts)
    ELSE Head(parts) \o <<d>> \o JoinWith(d, Tail(parts))

\* s.rstrip(sep)
RECURSIVE rstrip(_)
rstrip(s) ==
    IF s # <<>> /\ s[Len(s)] = sep THEN rstrip(SubSeq(s, 1, Len(s) - 1)) ELSE s

\* posixpath.isabs
isabs(p) == startswith(p, <<sep>>)

\* posixpath.join(a, *parts)
RECURSIVE join(_, _)
join(a, parts) ==
    IF parts = <<>> THEN a
    ELSE LET b == Head(parts)
             path == IF startswith(b, <<sep>>) THEN b
                     ELSE IF a = <<>> \/ endswith(a, <<sep>>) THEN a \o b
                     ELSE a \o <<sep>> \o b
         IN  join(path, Tail(parts))

\* posixpath.dirname
dirname(p) ==
    LET slashes == {i \in 1..Len(p) : p[i] = sep}
        i == IF slashes = {} THEN 0 ELSE CHOOSE k \in slashes : \A j \in slashes : j <= k
        head == SubSeq(p, 1, i)
    IN  IF head # <<>> /\ (\E j \in 1..Len(head) : head[j] # sep)
        THEN rstrip(head) ELSE head

\* the component loop of posixpath.normpath
RECURSIVE NormComps(_, _, _)
NormComps(comps, abs, acc) ==
    IF comps = <<>> THEN acc
    ELSE LET c == Head(comps)
             rest == Tail(comps)
         IN  IF c = <<>> \/ c = <<".">> THEN NormComps(rest, abs, acc)
             ELSE IF c # <<"..">>
                     \/ (~abs /\ acc = <<>>)
                     \/ (acc # <<>> /\ acc[Len(acc)] = <<"..">>)
                  THEN NormComps(rest, abs, Append(acc, c))
             ELSE IF acc # <<>> THEN NormComps(rest, abs, SubSeq(acc, 1, Len(acc) - 1))
             ELSE NormComps(rest, abs, acc)

\* posixpath.normpath (paths with exactly two leading slashes are not enumerated)
normpath(p) ==
    IF p = <<>> THEN <<".">>
    ELSE LET abs == startswith(p, <<sep>>)
             body == JoinWith(sep, NormComps(split(p, sep), abs, <<>>))
             out == IF abs THEN <<sep>> \o body ELSE body
         IN  IF out = <<>> THEN <<".">> ELSE out

\* os.getcwd() of the process
getcwd == <<sep, "work">>

\* posixpath.abspath
abspath(p) == normpath(IF isabs(p) THEN p ELSE join(getcwd, <<p>>))

\* repr of a str holding no quote or escape
repr(s) == <<"'">> \o s \o <<"'">>

\* repr of a list of str
RECURSIVE ReprItems(_)
ReprItems(l) ==
    IF l = <<>> THEN <<>>
    ELSE IF Len(l) = 1 THEN repr(Head(l))
    ELSE repr(Head(l)) \o <<", ">> \o ReprItems(Tail(l))

reprList(l) == <<"[">> \o ReprItems(l) \o <<"]">>

(***************************************************************************)
(* Inputs of a run: the launcher's __file__ and __name__, the filesystem,   *)
(* the interpreter's initial sys.path and the inherited PATH.               *)
(***************************************************************************)
VARIABLES
    file,            \* __file__
    name,            \* __name__
    fs,              \* the filesystem layout around the launcher
    sys_path,        \* sys.path
    environ,         \* os.environ's "PATH": <<>> when the key is missing, <<v>> when set to v
    pc,              \* position in the script
    items,           \* what is left of the iteration over os.listdir(lib_dir)
    e,               \* the ImportError being handled (its str)
    stderr,          \* everything written to sys.stderr
    exit_status,     \* <<>> while the process runs, <<n>> once it has exited with n
    import_attempts, \* how often line 57 was executed
    start_calls,     \* the argument tuples start was called with
    sys_path0,       \* sys.path at startup
    environ0,        \* PATH at startup
    locator_in       \* sys.path and PATH when line 17 was reached

vars == <<file, name, fs, sys_path, environ, pc, items, e, stderr, exit_status,
          import_attempts, start_calls, sys_path0, environ0, locator_in>>

Files ==
    { <<sep, "app", sep, "src", sep, "lsp_launcher.py">>,
      <<sep, "lsp_launcher.py">>,
      <<"src", sep, "lsp_launcher.py">> }

Names == {"__main__", "lsp_launcher"}

\* names that os.listdir(lib_dir) may return
Items == { <<"python", "3.11">>, <<"python", "3.12">>, <<"pkgconfig">> }

StdLib == <<sep, "usr", sep, "lib", sep, "python3">>
UsrBin == <<sep, "usr", sep, "bin">>

\* sequences over S of length at most n
SeqsUpTo(S, n) == UNION {[1..k -> S] : k \in 0..n}

\* the orders in which a directory of at most MaxItems distinct names may be listed
Listings ==
    {l \in SeqsUpTo(Items, MaxItems) : \A i, j \in 1..Len(l) : i # j => l[i] # l[j]}

Range(l) == {l[i] : i \in 1..Len(l)}

(***************************************************************************)
(* The module-level names of the script.                                    *)
(***************************************************************************)
\* The two names computed from __file__ (lines 7 and 12), tabulated over Files.
BundledLibsOf ==
    [f \in Files |-> join(dirname(f), << <<"..">>, <<"bundled">>, <<"libs">> >>)]

DevServerRootOf ==
    [f \in Files |->
        abspath(join(dirname(f), << <<"..">>, <<"..">>, <<"pywire-language-server">> >>))]

BUNDLED_LIBS == BundledLibsOf[file]

DEV_SERVER_ROOT == DevServerRootOf[file]

DEV_SERVER_SRC == join(DEV_SERVER_ROOT, << <<"src">> >>)

venv_dir == join(DEV_SERVER_ROOT, << <<".venv">> >>)

lib_dir == join(venv_dir, << <<"lib">> >>)

site_packages(item) == join(lib_dir, <<item, <<"site-packages">> >>)

bin_dir == join(venv_dir, << <<"bin">> >>)

\* the bundled executable directory, nested one level under the bundled libs
BUNDLED_BIN == join(BUNDLED_LIBS, << <<"bin">> >>)

(***************************************************************************)
(* The filesystem: which of the paths the script asks about exist.          *)
(***************************************************************************)
Layouts ==
    { l \in [dev_root : BOOLEAN, venv : BOOLEAN, lib : {"absent", "dir", "file"},
             listing : Listings, sp : SUBSET Items, bundled_bin : BOOLEAN] :
        /\ l.venv => l.dev_root
        /\ l.lib # "absent" => l.venv
        /\ l.lib # "dir" => l.listing = <<>>
        /\ l.sp \subseteq Range(l.listing) }

ExistingPaths ==
    (IF fs.dev_root THEN {DEV_SERVER_ROOT} ELSE {})
    \cup (IF fs.venv THEN {venv_dir} ELSE {})
    \cup (IF fs.lib # "absent" THEN {lib_dir} ELSE {})
    \cup {join(lib_dir, <<item>>) : item \in Range(fs.listing)}
    \cup {site_packages(item) : item \in fs.sp}
    \cup (IF fs.bundled_bin THEN {abspath(BUNDLED_BIN)} ELSE {})

\* os.path.exists
exists(p) == abspath(p) \in ExistingPaths

\* os.environ.get("PATH", default)
environ_get(default) == IF environ = <<>> THEN default ELSE environ[1]

\* list.insert(0, x)
insert0(l, x) == <<x>> \o l

Init ==
    /\ file \in Files
    /\ name \in Names
    /\ fs \in Layouts
    /\ sys_path \in SeqsUpTo({StdLib, BUNDLED_LIBS}, MaxInitEntries)
    /\ environ \in { <<>>, <<UsrBin>>, <<bin_dir \o <<pathsep>> \o UsrBin>> }
    /\ pc = "bundled"
    /\ items = <<>>
    /\ e = <<>>
    /\ stderr = <<>>
    /\ exit_status = <<>>
    /\ import_attempts = 0
    /\ start_calls = <<>>
    /\ sys_path0 = sys_path
    /\ environ0 = environ
    /\ locator_in = <<>>

(***************************************************************************)
(* Lines 7-14: the bundled libs and the development source tree.            *)
(***************************************************************************)
\* the registration with append in place of insert(0, ...)
RegisterBundled_appended ==
    /\ pc = "bundled"
    /\ sys_path' = Append(sys_path, BUNDLED_LIBS)
    /\ pc' = "dev"
    /\ UNCHANGED <<file, name, fs, environ, items, e, stderr, exit_status,
                   import_attempts, start_calls, sys_path0, environ0, locator_in>>

RegisterBundled ==
    /\ pc = "bundled"
    /\ sys_path' = insert0(sys_path, BUNDLED_LIBS)
    /\ pc' = "dev"
    /\ UNCHANGED <<file, name, fs, environ, items, e, stderr, exit_status,
                   import_attempts, start_calls, sys_path0, environ0, locator_in>>

\* the registration with insert(1, ...) in place of insert(0, ...)
RegisterDev_behind ==
    /\ pc = "dev"
    /\ sys_path' = <<Head(sys_path), DEV_SERVER_SRC>> \o Tail(sys_path)
    /\ pc' = "venv"
    /\ UNCHANGED <<file, name, fs, environ, items, e, stderr, exit_status,
                   import_attempts, start_calls, sys_path0, environ0, locator_in>>

RegisterDev ==
    /\ pc = "dev"
    /\ sys_path' = insert0(sys_path, DEV_SERVER_SRC)
    /\ pc' = "venv"
    /\ UNCHANGED <<file, name, fs, environ, items, e, stderr, exit_status,
                   import_attempts, start_calls, sys_path0, environ0, locator_in>>

(***************************************************************************)
(* Lines 17-31: the sibling .venv.                                          *)
(***************************************************************************)
\* the check with the PATH rewrite of line 30 hoisted in front of it
CheckVenv_hoisted ==
    /\ pc = "venv"
    /\ locator_in' = <<sys_path, environ>>
    /\ environ' = <<bin_dir \o <<pathsep>> \o environ_get(<<>>)>>
    /\ pc' = IF exists(venv_dir) THEN "lib" ELSE "log"
    /\ UNCHANGED <<file, name, fs, sys_path, items, e, stderr, exit_status,
                   import_attempts, start_calls, sys_path0, environ0>>

\* lines 17-18
CheckVenv ==
    /\ pc = "venv"
    /\ locator_in' = <<sys_path, environ>>
    /\ pc' = IF exists(venv_dir) THEN "lib" ELSE "log"
    /\ UNCHANGED <<file, name, fs, sys_path, environ, items, e, stderr, exit_status,
                   import_attempts, start_calls, sys_path0, environ0>>

\* an exception nothing catches: the traceback goes to stderr, the exit status is 1
Uncaught(what) ==
    /\ stderr' = stderr \o <<"Traceback (most recent call last): ", what, "\n">>
    /\ exit_status' = <<1>>
    /\ pc' = "exited"

\* lines 21-23: os.listdir raises NotADirectoryError when lib is a file
CheckLib ==
    /\ pc = "lib"
    /\ IF ~exists(lib_dir)
       THEN /\ pc' = "log"
            /\ UNCHANGED <<items, stderr, exit_status>>
       ELSE IF fs.lib = "dir"
       THEN /\ items' = fs.listing
            /\ pc' = "scan"
            /\ UNCHANGED <<stderr, exit_status>>
       ELSE /\ Uncaught("NotADirectoryError")
            /\ UNCHANGED items
    /\ UNCHANGED <<file, name, fs, sys_path, environ, e,
                   import_attempts, start_calls, sys_path0, environ0, locator_in>>

\* the loop with the PATH rewrite and the break one level out: they follow
\* every entry named python*, with or without a site-packages directory
ScanItem_dedented ==
    /\ pc = "scan"
    /\ IF items = <<>>
       THEN /\ pc' = "log"
            /\ UNCHANGED <<items, sys_path, environ>>
       ELSE LET item == Head(items) IN
            IF startswith(item, <<"python">>)
            THEN /\ sys_path' = IF exists(site_packages(item))
                                THEN insert0(sys_path, site_packages(item)) ELSE sys_path
                 /\ environ' = <<bin_dir \o <<pathsep>> \o environ_get(<<>>)>>
                 /\ pc' = "log"
                 /\ UNCHANGED items
            ELSE /\ items' = Tail(items)
                 /\ UNCHANGED <<pc, sys_path, environ>>
    /\ UNCHANGED <<file, name, fs, e, stderr, exit_status,
                   import_attempts, start_calls, sys_path0, environ0, locator_in>>

\* the loop with the break one level out: it ends at the first entry named
\* python*, and only that entry's site-packages directory is looked for
ScanItem_first_match ==
    /\ pc = "scan"
    /\ IF items = <<>>
       THEN /\ pc' = "log"
            /\ UNCHANGED <<items, sys_path, environ>>
       ELSE LET item == Head(items) IN
            IF startswith(item, <<"python">>)
            THEN /\ IF exists(site_packages(item))
                    THEN /\ sys_path' = insert0(sys_path, site_packages(item))
                         /\ environ' = <<bin_dir \o <<pathsep>> \o environ_get(<<>>)>>
                    ELSE UNCHANGED <<sys_path, environ>>
                 /\ pc' = "log"
                 /\ UNCHANGED items
            ELSE /\ items' = Tail(items)
                 /\ UNCHANGED <<pc, sys_path, environ>>
    /\ UNCHANGED <<file, name, fs, e, stderr, exit_status,
                   import_attempts, start_calls, sys_path0, environ0, locator_in>>

\* the loop with the new entry put behind the old value of PATH
ScanItem_path_appended ==
    /\ pc = "scan"
    /\ IF items = <<>>
       THEN /\ pc' = "log"
            /\ UNCHANGED <<items, sys_path, environ>>
       ELSE LET item == Head(items) IN
            IF startswith(item, <<"python">>) /\ exists(site_packages(item))
            THEN /\ sys_path' = insert0(sys_path, site_packages(item))
                 /\ environ' = <<environ_get(<<>>) \o <<pathsep>> \o bin_dir>>
                 /\ pc' = "log"
                 /\ UNCHANGED items
            ELSE /\ items' = Tail(items)
                 /\ UNCHANGED <<pc, sys_path, environ>>
    /\ UNCHANGED <<file, name, fs, e, stderr, exit_status,
                   import_attempts, start_calls, sys_path0, environ0, locator_in>>

\* the loop without its break
ScanItem_no_break ==
    /\ pc = "scan"
    /\ IF items = <<>>
       THEN /\ pc' = "log"
            /\ UNCHANGED <<items, sys_path, environ>>
       ELSE LET item == Head(items) IN
            /\ items' = Tail(items)
            /\ UNCHANGED pc
            /\ IF startswith(item, <<"python">>) /\ exists(site_packages(item))
               THEN /\ sys_path' = insert0(sys_path, site_packages(item))
                    /\ environ' = <<bin_dir \o <<pathsep>> \o environ_get(<<>>)>>
               ELSE UNCHANGED <<sys_path, environ>>
    /\ UNCHANGED <<file, name, fs, e, stderr, exit_status,
                   import_attempts, start_calls, sys_path0, environ0, locator_in>>

\* lines 23-31: one turn of the for loop, or its end
ScanItem ==
    /\ pc = "scan"
    /\ IF items = <<>>
       THEN /\ pc' = "log"
            /\ UNCHANGED <<items, sys_path, environ>>
       ELSE LET item == Head(items) IN
            IF startswith(item, <<"python">>) /\ exists(site_packages(item))
            THEN /\ sys_path' = insert0(sys_path, site_packages(item))
                 /\ environ' = <<bin_dir \o <<pathsep>> \o environ_get(<<>>)>>
                 /\ pc' = "log"
                 /\ UNCHANGED items
            ELSE /\ items' = Tail(items)
                 /\ UNCHANGED <<pc, sys_path, environ>>
    /\ UNCHANGED <<file, name, fs, e, stderr, exit_status,
                   import_attempts, start_calls, sys_path0, environ0, locator_in>>

(***************************************************************************)
(* Lines 35-53: the agent log.  The region appends one entry to a debug     *)
(* file and swallows every Exception; it assigns nothing the rest of the    *)
(* script reads, so whether the entry was written is not part of the state. *)
(***************************************************************************)
AgentLog ==
    /\ pc = "log"
    /\ pc' = "import"
    /\ UNCHANGED <<file, name, fs, sys_path, environ, items, e, stderr, exit_status,
                   import_attempts, start_calls, sys_path0, environ0, locator_in>>

(***************************************************************************)
(* Lines 56-64: the entry point.                                            *)
(***************************************************************************)
\* line 57: from pywire_language_server.server import start
ImportStart ==
    /\ pc = "import"
    /\ import_attempts' = import_attempts + 1
    /\ \E ok \in BOOLEAN :
         IF ok THEN /\ pc' = "main"
                    /\ UNCHANGED e
         ELSE /\ pc' = "except"
              /\ e' = <<"No module named ", "'pywire_language_server'">>
    /\ UNCHANGED <<file, name, fs, sys_path, environ, items, stderr, exit_status,
                   start_calls, sys_path0, environ0, locator_in>>

\* lines 58-59: start() when run as a script; otherwise the module ends
CallStart ==
    /\ pc = "main"
    /\ IF name = "__main__"
       THEN /\ start_calls' = Append(start_calls, <<>>)
            /\ pc' = "start"
            /\ UNCHANGED exit_status
       ELSE /\ pc' = "exited"
            /\ exit_status' = <<0>>
            /\ UNCHANGED start_calls
    /\ UNCHANGED <<file, name, fs, sys_path, environ, items, e, stderr,
                   import_attempts, sys_path0, environ0, locator_in>>

\* line 59, inside the try: what the server's start() does to the launcher.
\* It returns, or raises an ImportError (a deferred import of the server
\* fails), or raises something else.
StartEnds ==
    /\ pc = "start"
    /\ \/ /\ pc' = "exited"
          /\ exit_status' = <<0>>
          /\ UNCHANGED <<e, stderr>>
       \/ /\ pc' = "except"
          /\ e' = <<"No module named ", "'pygls'">>
          /\ UNCHANGED <<exit_status, stderr>>
       \/ /\ Uncaught("RuntimeError")
          /\ UNCHANGED e
    /\ UNCHANGED <<file, name, fs, sys_path, environ, items,
                   import_attempts, start_calls, sys_path0, environ0, locator_in>>

\* the handler without the sys.path line
ExceptImportError_no_list ==
    /\ pc = "except"
    /\ stderr' = stderr \o (<<"Failed to import language server: ">> \o e \o <<"\n">>)
    /\ exit_status' = <<1>>
    /\ pc' = "exited"
    /\ UNCHANGED <<file, name, fs, sys_path, environ, items, e,
                   import_attempts, start_calls, sys_path0, environ0, locator_in>>

\* lines 60-64
ExceptImportError ==
    /\ pc = "except"
    /\ stderr' = stderr
                 \o (<<"Failed to import language server: ">> \o e \o <<"\n">>)
                 \o (<<"sys.path: ">> \o reprList(sys_path) \o <<"\n">>)
    /\ exit_status' = <<1>>
    /\ pc' = "exited"
    /\ UNCHANGED <<file, name, fs, sys_path, environ, items, e,
                   import_attempts, start_calls, sys_path0, environ0, locator_in>>

Next ==
    \/ RegisterBundled
    \/ RegisterDev
    \/ CheckVenv
    \/ CheckLib
    \/ ScanItem
    \/ AgentLog
    \/ ImportStart
    \/ CallStart
    \/ StartEnds
    \/ ExceptImportError

Spec == Init /\ [][Next]_vars

(***************************************************************************)
(* Vocabulary of the properties.                                            *)
(***************************************************************************)
\* path setup (lines 7-31) has run to its end
SetupDone ==
    \/ pc \in {"log", "import", "main", "start", "except"}
    \/ pc = "exited" /\ import_attempts > 0

\* line 57 raised: the exception being handled is the one of the import
ImportFailed == e = <<"No module named ", "'pywire_language_server'">>

\* the launcher has reported a resolution failure and exited with status 1
Failed ==
    /\ exit_status = <<1>>
    /\ Contains(stderr, <<"Failed to import language server: ">>)

\* the value of PATH, a missing key read as the empty string
ValueOf(env) == IF env = <<>> THEN <<>> ELSE env[1]

\* sys.path after lines 7-14
BaseList == <<DEV_SERVER_SRC, BUNDLED_LIBS>> \o sys_path0

\* PATH with the environment's bin directory put in front of its initial value
BinPrepended == <<bin_dir \o <<pathsep>> \o ValueOf(environ0)>>

\* the directories named in a PATH value
Entries(v) == Range(split(v, pathsep))

\* the library directory of the environment is there to be scanned
Scanned == fs.venv /\ fs.lib = "dir"

IsPrefixed(item) == startswith(item, <<"python">>)

HasSitePackages(item) == item \in fs.sp

IsUsable(item) == IsPrefixed(item) /\ HasSitePackages(item)

\* the index of the first element of l that satisfies P, 0 when there is none
FirstWhere(l, P(_)) ==
    LET S == {i \in 1..Len(l) : P(l[i])}
    IN  IF S = {} THEN 0 ELSE CHOOSE i \in S : \A j \in S : i <= j

\* the number of sys.path entries registered in front of the development source
Registered == Len(sys_path) - Len(sys_path0) - 2

(***************************************************************************)
(* C1.                                                                      *)
(***************************************************************************)
\* C1: after path setup sys.path is the initial list with, in front of it and
\* in this order, at most one site-packages directory of the environment,
\* then the development source directory, then the bundled libs directory.
C1_PrecedenceOrder ==
    SetupDone =>
        \E R \in {<<>>} \cup {<<site_packages(i)>> : i \in Items} :
            sys_path = R \o <<DEV_SERVER_SRC, BUNDLED_LIBS>> \o sys_path0

C1_Witness ==
    /\ SetupDone
    /\ Registered = 1
    /\ sys_path[1] \in {site_packages(i) : i \in Items}
    /\ BUNDLED_LIBS \in Range(sys_path0)

(***************************************************************************)
(* C2.                                                                      *)
(***************************************************************************)
\* C2: when the import of line 57 fails, start is never called, the import
\* is not tried again, and the process exits with status 1 having written
\* to stderr exactly the failure detail and the repr of sys.path as path
\* setup left it.
C2_ImportFailureReport ==
    ImportFailed =>
        /\ start_calls = <<>>
        /\ import_attempts = 1
        /\ sys_path = locator_in[1]
                      \/ (Registered = 1 /\ Tail(sys_path) = locator_in[1])
        /\ pc = "exited" =>
            /\ exit_status = <<1>>
            /\ stderr # <<>>
            /\ stderr = <<"Failed to import language server: ">> \o e \o <<"\n">>
                        \o <<"sys.path: ">> \o reprList(sys_path) \o <<"\n">>

C2_Witness ==
    /\ ImportFailed
    /\ pc = "exited"
    /\ Registered = 1
    /\ name = "__main__"

(***************************************************************************)
(* C3.                                                                      *)
(***************************************************************************)
\* C3: if the bundled executable directory exists, PATH names it once path
\* setup is done.
C3_BundledBinOnPath ==
    (SetupDone /\ exists(BUNDLED_BIN)) =>
        \E d \in Entries(ValueOf(environ)) : d # <<>> /\ abspath(d) = abspath(BUNDLED_BIN)

(***************************************************************************)
(* C4.                                                                      *)
(***************************************************************************)
\* C4: without a .venv directory lines 17-31 change neither sys.path nor
\* PATH: both are as they were when line 17 was reached, sys.path still
\* being the initial list behind the development source and bundled libs.
C4_NoVenvNoChange ==
    (SetupDone /\ ~exists(venv_dir)) =>
        /\ sys_path = locator_in[1]
        /\ environ = locator_in[2]
        /\ sys_path = BaseList
        /\ environ = environ0

C4_Witness ==
    /\ SetupDone
    /\ ~exists(venv_dir)
    /\ fs.dev_root
    /\ environ0 # <<>>
    /\ sys_path0 # <<>>

(***************************************************************************)
(* C5.                                                                      *)
(***************************************************************************)
\* C5 as claimed: without a sibling development tree the first entry of
\* sys.path after setup is the bundled libs directory, and the report of a
\* failed import names that directory.
C5_BundledFirst ==
    (SetupDone /\ ~fs.dev_root) =>
        /\ sys_path[1] = BUNDLED_LIBS
        /\ (ImportFailed /\ pc = "exited") => Contains(stderr, BUNDLED_LIBS)

\* C5 as amended: without a sibling development tree sys.path after setup
\* starts with the development source directory, which is registered whether
\* or not it exists, and the bundled libs directory is its second entry; the
\* report of a failed import names the bundled libs directory as registered.
C5_BundledSecond ==
    (SetupDone /\ ~fs.dev_root) =>
        /\ sys_path[1] = DEV_SERVER_SRC
        /\ sys_path[2] = BUNDLED_LIBS
        /\ ~exists(DEV_SERVER_SRC)
        /\ (ImportFailed /\ pc = "exited") => Contains(stderr, repr(BUNDLED_LIBS))

C5_Witness ==
    /\ ~fs.dev_root
    /\ ImportFailed
    /\ pc = "exited"
    /\ sys_path0 # <<>>
    /\ BUNDLED_LIBS \notin Range(sys_path0)

(***************************************************************************)
(* C6.                                                                      *)
(***************************************************************************)
\* C6 as claimed: whenever the .venv directory exists its bin directory is
\* put in front of PATH, whatever is found under its lib directory.
C6_BinWheneverVenv ==
    (SetupDone /\ exists(venv_dir)) => environ = BinPrepended

\* C6 as amended: when the .venv directory exists its bin directory is put
\* in front of PATH exactly when the listing of its lib directory holds an
\* entry named python* with a site-packages directory; otherwise PATH is
\* left as it was.
C6_BinOnlyWithSitePackages ==
    (SetupDone /\ exists(venv_dir)) =>
        IF Scanned /\ \E i \in 1..Len(fs.listing) : IsUsable(fs.listing[i])
        THEN environ = BinPrepended
        ELSE environ = environ0

C6_Witness ==
    /\ SetupDone
    /\ exists(venv_dir)
    /\ Scanned
    /\ \E i \in 1..Len(fs.listing) : IsPrefixed(fs.listing[i])
    /\ fs.sp = {}
    /\ environ = environ0

(***************************************************************************)
(* C7.                                                                      *)
(***************************************************************************)
\* C7: the import is attempted at most once and only after path setup, a
\* run that reaches the entry invoker has attempted it exactly once, start
\* is called at most once and without arguments, and both outcomes are
\* final: once start has been called no resolution failure is reported, and
\* after a reported failure start has not been called.
C7_ThreeStateMachine ==
    /\ import_attempts <= 1
    /\ import_attempts > 0 => pc \notin {"bundled", "dev", "venv", "lib", "scan", "log"}
    /\ pc \in {"main", "start", "except"} => import_attempts = 1
    /\ Len(start_calls) <= 1
    /\ \A i \in 1..Len(start_calls) : start_calls[i] = <<>>
    /\ ~(start_calls # <<>> /\ Failed)

(***************************************************************************)
(* C8.                                                                      *)
(***************************************************************************)
\* C8 as claimed: the scan settles on the first entry named python*; that
\* entry's site-packages directory is put in front of sys.path when it
\* exists, and nothing is put there when it does not.
C8_FirstPrefixedOnly ==
    (SetupDone /\ Scanned) =>
        LET i == FirstWhere(fs.listing, IsPrefixed)
        IN  sys_path = (IF i # 0 /\ HasSitePackages(fs.listing[i])
                        THEN <<site_packages(fs.listing[i])>> ELSE <<>>) \o BaseList

\* C8 as amended: the scan settles on the first entry named python* that
\* has a site-packages directory, passing over entries named python*
\* without one; that directory is put in front of sys.path, and nothing is
\* put there only when no entry named python* has one.
C8_FirstUsable ==
    (SetupDone /\ Scanned) =>
        LET i == FirstWhere(fs.listing, IsUsable)
        IN  sys_path = (IF i # 0 THEN <<site_packages(fs.listing[i])>> ELSE <<>>)
                       \o BaseList

C8_Witness ==
    /\ SetupDone
    /\ Scanned
    /\ Len(fs.listing) >= 2
    /\ IsPrefixed(fs.listing[1]) /\ ~HasSitePackages(fs.listing[1])
    /\ IsUsable(fs.listing[2])
    /\ sys_path[1] = site_packages(fs.listing[2])

(***************************************************************************)
(* C9.                                                                      *)
(***************************************************************************)
\* C9: PATH is only ever prepended to: its value is its initial value (a
\* missing key read as empty) behind zero or more new directories, each
\* followed by the path separator; a PATH that is not rewritten stays as it
\* was, missing if it was missing.
C9_PathOnlyPrepended ==
    LET v == ValueOf(environ)
        v0 == ValueOf(environ0)
        added == SubSeq(v, 1, Len(v) - Len(v0))
    IN  /\ endswith(v, v0)
        /\ added = <<>> => environ = environ0
        /\ added # <<>> =>
             /\ environ # <<>>
             /\ endswith(added, <<pathsep>>)
             /\ \A d \in Entries(SubSeq(added, 1, Len(added) - 1)) : d # <<>>

C9_Witness ==
    /\ SetupDone
    /\ environ0 # <<>>
    /\ bin_dir \in Entries(ValueOf(environ0))
    /\ environ # environ0

(***************************************************************************)
(* C10.                                                                     *)
(***************************************************************************)
\* C10: the scan puts at most one site-packages directory in front of
\* sys.path; PATH gets the bin directory in front, once, exactly when that
\* happened and is untouched otherwise; a listing without an entry named
\* python* leads to neither.
C10_AtMostOneTogether ==
    pc \notin {"bundled", "dev"} =>
        /\ Registered \in {0, 1}
        /\ Registered = 1 =>
             /\ sys_path[1] \in {site_packages(i) : i \in Range(fs.listing)}
             /\ environ = BinPrepended
        /\ Registered = 0 => environ = environ0
        /\ FirstWhere(fs.listing, IsPrefixed) = 0 => Registered = 0

C10_Witness ==
    /\ SetupDone
    /\ Len(fs.listing) >= 2
    /\ IsUsable(fs.listing[1])
    /\ IsUsable(fs.listing[2])
    /\ Registered = 1
    /\ environ = BinPrepended

====
